---- MODULE Spec2Model ----
(***************************************************************************)
(* A model of the serverless request router: handler.handle, its           *)
(* dispatcher get_controller, the EventUtils accessors and the             *)
(* LoginController with its LoginSchema.                                   *)
(*                                                                         *)
(* Python values are tagged records [t, v, m]: t is the type, v the atoms  *)
(* of a string or number, m the members of a dict (in insertion order).    *)
(* A string is a sequence of atoms (characters, or longer fragments for    *)
(* fixed texts), so prefix matching, splitting and concatenation are       *)
(* computed on it.  A JSON text is a sequence of tokens.                    *)
(***************************************************************************)
EXTENDS Integers, Sequences, FiniteSets, TLC

VARIABLES
  ROUTES,        \* the route table, loaded once (handler.py:21)
  callee,        \* which entry point is running: "", "handle", "get_body", "get_request_origin"
  pc,            \* position inside the running call
  event, pid,    \* the arguments of handle (pid = context.aws_request_id)
  resource, request_type, controller, instance, response,  \* locals of handle
  error,         \* the exception that left the call, "" when none
  ret,           \* the value returned by a directly called accessor
  trace,         \* the steps of handle executed so far in this invocation
  prev           \* the outcome of the previous invocation of handle on the same event

vars == <<ROUTES, callee, pc, event, pid, resource, request_type, controller,
          instance, response, error, ret, trace, prev>>

(***************************************************************************)
(* Bounds                                                                  *)
(***************************************************************************)
MaxRoutes == 2      \* entries in the route table
MaxPathLen == 2     \* atoms in a request path

(***************************************************************************)
(* Values                                                                  *)
(***************************************************************************)
Val(t, v, m, j) == [t |-> t, v |-> v, m |-> m, j |-> j]
Missing == Val("missing", <<>>, <<>>, <<>>)  \* the key is not in the dict
None == Val("none", <<>>, <<>>, <<>>)        \* Python None, JSON null
Str(s) == Val("str", s, <<>>, <<>>)          \* a str, by its atoms
Number(s) == Val("int", s, <<>>, <<>>)       \* an int, by its digits
Dict(m) == Val("dict", <<>>, m, <<>>)        \* m: sequence of [k |-> atoms, val |-> value]
Text(toks) == Val("text", <<>>, <<>>, toks)  \* a str holding a JSON text, by its tokens
Member(k, x) == [k |-> k, val |-> x]

IsStr(x) == x.t \in {"str", "text"}

\* Python's truth value of an object
Truthy(x) ==
  CASE x.t = "str" -> x.v # <<>>
    [] x.t = "text" -> x.j # <<>>
    [] x.t = "int" -> x.v # <<"0">>
    [] x.t = "dict" -> x.m # <<>>
    [] OTHER -> FALSE

RECURSIVE IndexOfKey(_, _, _)
IndexOfKey(m, k, i) ==
  IF i > Len(m) THEN 0
  ELSE IF m[i].k = k THEN i
  ELSE IndexOfKey(m, k, i + 1)

HasKey(d, k) == IndexOfKey(d.m, k, 1) # 0

\* d.get(k, default)
dict_get(d, k, default) ==
  LET i == IndexOfKey(d.m, k, 1) IN IF i = 0 THEN default ELSE d.m[i].val

\* d[k] = x on an insertion-ordered dict: a new key goes last, an old key keeps its place
dict_set(m, k, x) ==
  LET i == IndexOfKey(m, k, 1) IN
  IF i = 0 THEN Append(m, Member(k, x))
  ELSE [m EXCEPT ![i] = Member(k, x)]

\* the outcome of a call: a returned value, or a raised exception
Ok(x) == [err |-> "", val |-> x]
Raise(e) == [err |-> e, val |-> None]

(***************************************************************************)
(* json.dumps and json.loads, on token sequences                            *)
(***************************************************************************)
Punct(c) == Val("punct", <<c>>, <<>>, <<>>)
LBRACE == Punct("{")
RBRACE == Punct("}")
COLON == Punct(":")
COMMA == Punct(",")

IsScalar(x) == x.t \in {"str", "int", "none"}

RECURSIVE dumps_members(_, _)
dumps_members(m, i) ==
  IF i > Len(m) THEN <<>>
  ELSE (IF i > 1 THEN <<COMMA>> ELSE <<>>)
       \o <<Str(m[i].k), COLON, m[i].val>> \o dumps_members(m, i + 1)

\* json.dumps of a scalar or of a dict of scalars
json_dumps(x) ==
  IF x.t = "dict" THEN Text(<<LBRACE>> \o dumps_members(x.m, 1) \o <<RBRACE>>)
  ELSE Text(<<x>>)

\* the members of an object whose first member starts at token i
RECURSIVE loads_members(_, _, _)
loads_members(toks, i, acc) ==
  IF i + 3 > Len(toks) THEN Raise("JSONDecodeError")
  ELSE IF toks[i].t = "str" /\ toks[i + 1] = COLON /\ IsScalar(toks[i + 2])
  THEN LET acc2 == dict_set(acc, toks[i].v, toks[i + 2]) IN
       IF toks[i + 3] = RBRACE
       THEN (IF i + 3 = Len(toks) THEN Ok(Dict(acc2)) ELSE Raise("JSONDecodeError"))
       ELSE IF toks[i + 3] = COMMA THEN loads_members(toks, i + 4, acc2)
       ELSE Raise("JSONDecodeError")
  ELSE Raise("JSONDecodeError")

\* json.loads: of a str; anything else is a TypeError
json_loads(s) ==
  LET toks == s.j IN
  IF ~IsStr(s) THEN Raise("TypeError: the JSON object must be str")
  ELSE IF s.t = "str" \/ Len(toks) = 0 THEN Raise("JSONDecodeError")
  ELSE IF Len(toks) = 1
  THEN (IF IsScalar(toks[1]) THEN Ok(toks[1]) ELSE Raise("JSONDecodeError"))
  ELSE IF toks[1] # LBRACE THEN Raise("JSONDecodeError")
  ELSE IF Len(toks) = 2
  THEN (IF toks[2] = RBRACE THEN Ok(Dict(<<>>)) ELSE Raise("JSONDecodeError"))
  ELSE loads_members(toks, 2, <<>>)

(***************************************************************************)
(* utils/event_utils.py: EventUtils                                         *)
(***************************************************************************)
K(name) == <<name>>      \* a key or fixed text, as a one-atom string

\* get_body with the empty case answered by an empty dict instead of an exception
get_body_lenient(e) ==
  LET body == dict_get(e, K("body"), Dict(<<>>)) IN
  IF Truthy(body) THEN json_loads(body)
  ELSE Ok(Dict(<<>>))

\* get_body: the parsed body, ValueError when the body is missing or falsy
get_body(e) ==
  LET body == dict_get(e, K("body"), Dict(<<>>)) IN
  IF Truthy(body) THEN json_loads(body)
  ELSE Raise("ValueError: Body was empty")

\* get_resource: the path when it is truthy, otherwise the int 404
get_resource(e) ==
  IF Truthy(dict_get(e, K("path"), None)) THEN dict_get(e, K("path"), None)
  ELSE Number(<<"404">>)

\* get_request_type: the method when it is truthy, otherwise ValueError
get_request_type(e) ==
  IF Truthy(dict_get(e, K("httpMethod"), None))
  THEN Ok(dict_get(e, K("httpMethod"), None))
  ELSE Raise("ValueError: Request type not found in the request")

\* str.lower, atom by atom
LowerAtom(a) ==
  CASE a = "O" -> "o"
    [] a = "RIGIN" -> "rigin"
    [] a = "H" -> "h"
    [] a = "L" -> "l"
    [] a = "G" -> "g"
    [] OTHER -> a

lower(s) == [i \in 1..Len(s) |-> LowerAtom(s[i])]

\* {key.lower(): value for key, value in headers.items()}
RECURSIVE lower_keys(_, _, _)
lower_keys(m, i, acc) ==
  IF i > Len(m) THEN acc
  ELSE lower_keys(m, i + 1, dict_set(acc, lower(m[i].k), m[i].val))

\* get_request_origin: .items() of the headers value, which only a dict has
get_request_origin(e) ==
  LET request_headers == dict_get(e, K("headers"), Dict(<<>>)) IN
  IF request_headers.t # "dict"
  THEN Raise("AttributeError: object has no attribute 'items'")
  ELSE LET lowered == Dict(lower_keys(request_headers.m, 1, <<>>)) IN
       IF Truthy(lowered) THEN Ok(dict_get(lowered, <<"o", "rigin">>, None))
       ELSE Ok(None)

(***************************************************************************)
(* handler.py: get_controller                                               *)
(***************************************************************************)
\* A pattern is a sequence of atoms: a literal character, "." (any character),
\* and "$" as its last atom (the end of the string).
Anchored(p) == Len(p) > 0 /\ p[Len(p)] = "$"
PatBody(p) == IF Anchored(p) THEN SubSeq(p, 1, Len(p) - 1) ELSE p

\* re.match(pattern, string): a match at the start of the string
re_match(p, s) ==
  IF s.t # "str" THEN Raise("TypeError: expected string or bytes-like object")
  ELSE LET b == PatBody(p) IN
       IF /\ Len(b) <= Len(s.v)
          /\ \A i \in 1..Len(b) : b[i] = "." \/ b[i] = s.v[i]
          /\ Anchored(p) => Len(b) = Len(s.v)
       THEN Ok(Str(<<"match">>))
       ELSE Ok(None)

\* for key, value in ROUTES.items(): if re.match(key, resource): return value[request_type]
RECURSIVE routes_scan(_, _, _, _)
routes_scan(routes, i, res, rtype) ==
  IF i > Len(routes.m) THEN Ok(None)
  ELSE LET hit == re_match(routes.m[i].k, res) IN
       IF hit.err # "" THEN hit
       ELSE IF Truthy(hit.val)
       THEN (IF HasKey(routes.m[i].val, rtype.v)
             THEN Ok(dict_get(routes.m[i].val, rtype.v, None))
             ELSE Raise("KeyError"))
       ELSE routes_scan(routes, i + 1, res, rtype)

\* the scan without its return inside the loop: the last matching entry decides
RECURSIVE routes_scan_last(_, _, _, _)
routes_scan_last(routes, i, res, rtype) ==
  IF i < 1 THEN Ok(None)
  ELSE LET hit == re_match(routes.m[i].k, res) IN
       IF hit.err # "" THEN hit
       ELSE IF Truthy(hit.val)
       THEN (IF HasKey(routes.m[i].val, rtype.v)
             THEN Ok(dict_get(routes.m[i].val, rtype.v, None))
             ELSE Raise("KeyError"))
       ELSE routes_scan_last(routes, i - 1, res, rtype)

get_controller_last_match(res, rtype) == routes_scan_last(ROUTES, Len(ROUTES.m), res, rtype)

get_controller(res, rtype) == routes_scan(ROUTES, 1, res, rtype)

(***************************************************************************)
(* src/models/login_schema.py: LoginSchema (marshmallow)                    *)
(***************************************************************************)
Letters == {"a", "b", "c"}

RECURSIVE LastIndexOf(_, _, _)
LastIndexOf(s, c, i) ==
  IF i = 0 THEN 0
  ELSE IF s[i] = c THEN i
  ELSE LastIndexOf(s, c, i - 1)

\* letters in groups separated by single dots, no dot first or last
DotAtom(s) ==
  /\ Len(s) > 0
  /\ s[1] # "." /\ s[Len(s)] # "."
  /\ \A i \in 1..Len(s) : s[i] \in Letters \cup {"."}
  /\ \A i \in 1..(Len(s) - 1) : ~(s[i] = "." /\ s[i + 1] = ".")

\* validate.Email: user@domain, split at the last "@"; the user part a dot-atom,
\* the domain dotted labels ending in a label of two letters or more
Email_validate(value) ==
  LET at == LastIndexOf(value, "@", Len(value)) IN
  /\ value # <<>>
  /\ at # 0
  /\ LET user_part == SubSeq(value, 1, at - 1)
         domain_part == SubSeq(value, at + 1, Len(value))
         dot == LastIndexOf(domain_part, ".", Len(domain_part))
     IN /\ DotAtom(user_part)
        /\ DotAtom(domain_part)
        /\ dot # 0
        /\ Len(domain_part) - dot >= 2

\* fields.Email(required=True): present, a str, a valid address
email_fails(data) ==
  LET x == dict_get(data, K("email"), Missing) IN
  x.t # "str" \/ ~Email_validate(x.v)

\* fields.String(required=True): present and a str
password_fails(data) ==
  LET x == dict_get(data, K("password"), Missing) IN
  x.t # "str"

\* the keys of the data that the schema does not declare (unknown = RAISE)
RECURSIVE unknown_keys(_, _)
unknown_keys(m, i) ==
  IF i > Len(m) THEN <<>>
  ELSE (IF m[i].k \in {K("email"), K("password")} THEN <<>> ELSE <<m[i].k>>)
       \o unknown_keys(m, i + 1)

\* schema.load(data): the keys of ValidationError.normalized_messages(), <<>> when valid
LoginSchema_load(data) ==
  IF data.t # "dict" THEN <<K("_schema")>>
  ELSE (IF email_fails(data) THEN <<K("email")>> ELSE <<>>)
       \o (IF password_fails(data) THEN <<K("password")>> ELSE <<>>)
       \o unknown_keys(data.m, 1)

(***************************************************************************)
(* src/controllers/login_controller.py: LoginController                     *)
(***************************************************************************)
NoInstance == [body |-> None, pid |-> ""]
NoResponse == [statusCode |-> 0, body |-> Text(<<>>)]      \* response = {}

\* json.dumps of the text itself, not of an object holding it
Message_bare(text) == json_dumps(Str(text))

Message(text) == json_dumps(Dict(<<Member(K("message"), Str(text))>>))

\* str(list(keys)): ['k1', 'k2']
RECURSIVE repr_items(_, _)
repr_items(keys, i) ==
  IF i > Len(keys) THEN <<>>
  ELSE (IF i > 1 THEN <<", ">> ELSE <<>>)
       \o <<"'">> \o keys[i] \o <<"'">> \o repr_items(keys, i + 1)

repr_list(keys) == <<"[">> \o repr_items(keys, 1) \o <<"]">>

\* LoginController(event, pid): the body is parsed in the constructor
LoginController_init(e, p) ==
  LET body == get_body(e) IN
  IF body.err # "" THEN [err |-> body.err, inst |-> NoInstance]
  ELSE [err |-> "", inst |-> [body |-> body.val, pid |-> p]]

\* _authenticate: email and password == "strongpassword"
authenticate(inst) ==
  LET email == dict_get(inst.body, K("email"), Missing)
      password == dict_get(inst.body, K("password"), Missing)
  IN Truthy(email) /\ password = Str(K("strongpassword"))

\* execute with the password checked before the schema
execute_authenticate_first(inst) ==
  IF inst.body.t = "dict" /\ authenticate(inst)
  THEN [statusCode |-> 200, body |-> Message(K("Login successful!"))]
  ELSE LET missing_keys == LoginSchema_load(inst.body) IN
       IF missing_keys # <<>>
       THEN [statusCode |-> 422,
             body |-> Message(repr_list(missing_keys) \o <<" are missing!">>)]
       ELSE [statusCode |-> 403,
             body |-> Message(K("Either email or password is incorrect!"))]

\* execute with the request id put into the success message
execute_echo_pid(inst) ==
  LET missing_keys == LoginSchema_load(inst.body) IN
  IF missing_keys # <<>>
  THEN [statusCode |-> 422,
        body |-> Message(repr_list(missing_keys) \o <<" are missing!">>)]
  ELSE IF authenticate(inst)
  THEN [statusCode |-> 200, body |-> Message(<<"Login successful!", " ", inst.pid>>)]
  ELSE [statusCode |-> 403, body |-> Message(K("Either email or password is incorrect!"))]

\* execute: 422 on a validation error, 200 when authenticated, 403 otherwise
LoginController_execute(inst) ==
  LET missing_keys == LoginSchema_load(inst.body) IN
  IF missing_keys # <<>>
  THEN [statusCode |-> 422,
        body |-> Message(repr_list(missing_keys) \o <<" are missing!">>)]
  ELSE IF authenticate(inst)
  THEN [statusCode |-> 200, body |-> Message(K("Login successful!"))]
  ELSE [statusCode |-> 403, body |-> Message(K("Either email or password is incorrect!"))]

(***************************************************************************)
(* handler.py: handle, from the controller name on                          *)
(***************************************************************************)
NotFoundResponse == [statusCode |-> 404, body |-> Message(K("Resource not found!"))]

\* importlib.import_module("src.controllers." + controller.lower() + "_controller"),
\* getattr(module, controller + "Controller"), class_(event, pid)
instantiate(ctrl, e, p) ==
  IF lower(ctrl.v) \o <<"_controller">> # <<"l", "ogin", "_controller">>
  THEN [err |-> "ModuleNotFoundError", inst |-> NoInstance]
  ELSE IF ctrl.v \o <<"Controller">> # <<"L", "ogin", "Controller">>
  THEN [err |-> "AttributeError: module has no attribute", inst |-> NoInstance]
  ELSE LoginController_init(e, p)

\* dispatch without the test of the controller name: None.lower() fails
dispatch_unchecked(ctrl, e, p) ==
  LET made == IF ctrl.t = "str" THEN instantiate(ctrl, e, p)
              ELSE [err |-> "AttributeError: 'NoneType' object has no attribute 'lower'",
                    inst |-> NoInstance]
  IN IF made.err # ""
     THEN [pc |-> "raised", inst |-> NoInstance, resp |-> NoResponse, err |-> made.err]
     ELSE [pc |-> "execute", inst |-> made.inst, resp |-> NoResponse, err |-> ""]

\* dispatch with the body parsed before the controller name is looked at
dispatch_body_first(ctrl, e, p) ==
  LET body == get_body(e) IN
  IF body.err # ""
  THEN [pc |-> "raised", inst |-> NoInstance, resp |-> NoResponse, err |-> body.err]
  ELSE IF Truthy(ctrl)
  THEN LET made == instantiate(ctrl, e, p) IN
       IF made.err # ""
       THEN [pc |-> "raised", inst |-> NoInstance, resp |-> NoResponse, err |-> made.err]
       ELSE [pc |-> "execute", inst |-> made.inst, resp |-> NoResponse, err |-> ""]
  ELSE [pc |-> "returned", inst |-> NoInstance, resp |-> NotFoundResponse, err |-> ""]

\* if controller: ... else: the 404 response.  The step after get_controller:
\* where handle goes next, with the instance, response and exception it has then
dispatch(ctrl, e, p) ==
  IF Truthy(ctrl)
  THEN LET made == instantiate(ctrl, e, p) IN
       IF made.err # ""
       THEN [pc |-> "raised", inst |-> NoInstance, resp |-> NoResponse, err |-> made.err]
       ELSE [pc |-> "execute", inst |-> made.inst, resp |-> NoResponse, err |-> ""]
  ELSE [pc |-> "returned", inst |-> NoInstance, resp |-> NotFoundResponse, err |-> ""]

(***************************************************************************)
(* Inputs: route tables and events                                          *)
(***************************************************************************)
Seqs(S, n) == UNION {[1..k -> S] : k \in 0..n}

GET == K("GET")
POST == K("POST")
Login == <<"L", "ogin">>
Ghost == <<"G", "host">>      \* a controller name no module implements

Patterns == {<<"/">>, <<"/", "u">>, <<"/", "$">>}
MethodMaps ==
  {Dict(<<Member(POST, Str(Login))>>),
   Dict(<<Member(POST, Str(Ghost))>>),
   Dict(<<Member(GET, Str(Login))>>)}
RouteEntries == {Member(p, mm) : p \in Patterns, mm \in MethodMaps}

\* the route tables: dicts from pattern to method map, so no pattern twice
RouteTables ==
  {Dict(t) : t \in {s \in Seqs(RouteEntries, MaxRoutes) :
                      \A i, j \in 1..Len(s) : i # j => s[i].k # s[j].k}}

PathAlphabet == {"/", "u"}
PathVals ==
  {Missing, Str(<<>>)} \cup {Str(s) : s \in Seqs(PathAlphabet, MaxPathLen) \ {<<>>}}
MethodVals == {Missing, Str(GET), Str(POST)}

EmailVals == {Missing, Str(<<>>), Str(<<"a", "@", "b", ".", "c">>),
              Str(<<"a", "@", "b", ".", "c", "c">>)}
PasswordVals == {Missing, Number(<<"1">>), Str(K("wrong")), Str(K("strongpassword"))}
ExtraVals == {Missing, Number(<<"1">>)}

\* a dict of the given members, the missing ones left out
RECURSIVE Present(_, _)
Present(m, i) ==
  IF i > Len(m) THEN <<>>
  ELSE (IF m[i].val.t = "missing" THEN <<>> ELSE <<m[i]>>) \o Present(m, i + 1)

DictOf(m) == Dict(Present(m, 1))

LoginObjects ==
  {DictOf(<<Member(K("email"), em), Member(K("password"), pw), Member(K("remember"), ex)>>) :
     em \in EmailVals, pw \in PasswordVals, ex \in ExtraVals}

ValidLogin ==
  json_dumps(Dict(<<Member(K("email"), Str(<<"a", "@", "b", ".", "c", "c">>)),
                    Member(K("password"), Str(K("strongpassword")))>>))
Truncated == Text(SubSeq(ValidLogin.j, 1, Len(ValidLogin.j) - 1))   \* no closing brace

\* the body field: missing, null, "", an int, and JSON texts, well-formed or not
BodyVals ==
  {Missing, None, Text(<<>>), Number(<<"5">>), Truncated, Text(<<Number(<<"7">>)>>)}
    \cup {json_dumps(o) : o \in LoginObjects}
FewBodies == {Missing, Text(<<>>), Truncated, ValidLogin}

TestHeaders == Dict(<<Member(<<"o", "rigin">>, Str(K("https://google.com/")))>>)
HeaderVals ==
  {Missing, None, Dict(<<>>), TestHeaders,
   Dict(<<Member(<<"O", "rigin">>, Str(K("https://a/")))>>),
   Dict(<<Member(<<"O", "RIGIN">>, Str(K("https://a/")))>>),
   Dict(<<Member(<<"H", "ost">>, Str(K("a")))>>),
   Dict(<<Member(<<"H", "ost">>, Str(K("a"))), Member(<<"O", "rigin">>, Str(K("https://a/")))>>),
   Dict(<<Member(<<"o", "rigin">>, Str(K("https://b/"))),
          Member(<<"O", "rigin">>, Str(K("https://a/")))>>)}

mk_event(path, method, headers, body) ==
  DictOf(<<Member(K("path"), path), Member(K("httpMethod"), method),
           Member(K("headers"), headers), Member(K("body"), body)>>)

RoutingEvents ==
  {mk_event(p, m, TestHeaders, b) : p \in PathVals, m \in MethodVals, b \in FewBodies}
LoginEvents ==
  {mk_event(Str(<<"/", "u">>), Str(POST), TestHeaders, b) : b \in BodyVals}
OriginEvents ==
  {mk_event(Str(<<"/", "u">>), Str(POST), h, ValidLogin) : h \in HeaderVals}
HandleEvents == RoutingEvents \cup LoginEvents
Pids == {"req-1", "req-2"}

(***************************************************************************)
(* The state machine                                                        *)
(***************************************************************************)
NoEvent == Dict(<<>>)
Outcome == [kind |-> pc, response |-> response, error |-> error]
NoPrev ==
  [set |-> FALSE, pid |-> "",
   out |-> [kind |-> "", response |-> NoResponse, error |-> ""]]

Init ==
  /\ ROUTES \in RouteTables
  /\ callee = "" /\ pc = "idle"
  /\ event = NoEvent /\ pid = ""
  /\ resource = None /\ request_type = None /\ controller = None
  /\ instance = NoInstance /\ response = NoResponse
  /\ error = "" /\ ret = None /\ trace = <<>> /\ prev = NoPrev

\* handle(event, context) is entered
Enter(e, p) ==
  /\ callee' = "handle" /\ pc' = "get_resource"
  /\ event' = e /\ pid' = p
  /\ resource' = None /\ request_type' = None /\ controller' = None
  /\ instance' = NoInstance /\ response' = NoResponse
  /\ error' = "" /\ ret' = None /\ trace' = <<>>
  /\ UNCHANGED ROUTES

Invoke ==
  /\ pc = "idle"
  /\ \E e \in HandleEvents, p \in Pids : Enter(e, p)
  /\ prev' = NoPrev

\* the platform delivers the same event again, under any request id
Reinvoke ==
  /\ callee = "handle" /\ pc \in {"returned", "raised"}
  /\ \E p \in Pids : Enter(event, p)
  /\ prev' = [set |-> TRUE, pid |-> pid, out |-> Outcome]

\* resource = event_utils.get_resource()
GetResource ==
  /\ callee = "handle" /\ pc = "get_resource"
  /\ resource' = get_resource(event)
  /\ trace' = Append(trace, "get_resource")
  /\ pc' = "get_request_type"
  /\ UNCHANGED <<ROUTES, callee, event, pid, request_type, controller, instance,
                 response, error, ret, prev>>

\* request_type = event_utils.get_request_type()
GetRequestType ==
  /\ callee = "handle" /\ pc = "get_request_type"
  /\ LET r == get_request_type(event) IN
       /\ request_type' = r.val
       /\ error' = r.err
       /\ pc' = IF r.err # "" THEN "raised" ELSE "get_controller"
  /\ trace' = Append(trace, "get_request_type")
  /\ UNCHANGED <<ROUTES, callee, event, pid, resource, controller, instance,
                 response, ret, prev>>

\* controller = get_controller(resource=resource, request_type=request_type)
GetController ==
  /\ callee = "handle" /\ pc = "get_controller"
  /\ LET r == get_controller(resource, request_type) IN
       /\ controller' = r.val
       /\ error' = r.err
       /\ pc' = IF r.err # "" THEN "raised" ELSE "dispatch"
  /\ trace' = Append(trace, "get_controller")
  /\ UNCHANGED <<ROUTES, callee, event, pid, resource, request_type, instance,
                 response, ret, prev>>

\* if controller: instance = class_(event, pid)  else: response = the 404
Dispatch ==
  /\ callee = "handle" /\ pc = "dispatch"
  /\ LET d == dispatch(controller, event, pid) IN
       /\ pc' = d.pc
       /\ instance' = d.inst
       /\ response' = d.resp
       /\ error' = d.err
       /\ trace' = IF Truthy(controller) THEN Append(trace, "construct") ELSE trace
  /\ UNCHANGED <<ROUTES, callee, event, pid, resource, request_type, controller,
                 ret, prev>>

\* response = instance.execute()
Execute ==
  /\ callee = "handle" /\ pc = "execute"
  /\ response' = LoginController_execute(instance)
  /\ trace' = Append(trace, "execute")
  /\ pc' = "returned"
  /\ UNCHANGED <<ROUTES, callee, event, pid, resource, request_type, controller,
                 instance, error, ret, prev>>

\* EventUtils(e).get_body() called on its own
CallGetBody ==
  /\ pc = "idle"
  /\ \E e \in HandleEvents :
       LET r == get_body(e) IN
       /\ callee' = "get_body" /\ event' = e
       /\ ret' = r.val /\ error' = r.err
       /\ pc' = IF r.err # "" THEN "raised" ELSE "returned"
  /\ UNCHANGED <<ROUTES, pid, resource, request_type, controller, instance,
                 response, trace, prev>>

\* EventUtils(e).get_request_origin() called on its own
CallGetRequestOrigin ==
  /\ pc = "idle"
  /\ \E e \in OriginEvents :
       LET r == get_request_origin(e) IN
       /\ callee' = "get_request_origin" /\ event' = e
       /\ ret' = r.val /\ error' = r.err
       /\ pc' = IF r.err # "" THEN "raised" ELSE "returned"
  /\ UNCHANGED <<ROUTES, pid, resource, request_type, controller, instance,
                 response, trace, prev>>

\* the call is over; nothing of it is kept
Return ==
  /\ pc \in {"returned", "raised"}
  /\ callee' = "" /\ pc' = "idle"
  /\ event' = NoEvent /\ pid' = ""
  /\ resource' = None /\ request_type' = None /\ controller' = None
  /\ instance' = NoInstance /\ response' = NoResponse
  /\ error' = "" /\ ret' = None /\ trace' = <<>> /\ prev' = NoPrev
  /\ UNCHANGED ROUTES

Next ==
  \/ Invoke \/ Reinvoke
  \/ GetResource \/ GetRequestType \/ GetController \/ Dispatch \/ Execute
  \/ CallGetBody \/ CallGetRequestOrigin
  \/ Return

Spec == Init /\ [][Next]_vars

(***************************************************************************)
(* Vocabulary of the properties                                             *)
(***************************************************************************)
InHandle == callee = "handle"
Over == pc \in {"returned", "raised"}
Ran(step) == \E i \in 1..Len(trace) : trace[i] = step

PathOf(e) == dict_get(e, K("path"), Missing)
MethodOf(e) == dict_get(e, K("httpMethod"), Missing)
BodyOf(e) == dict_get(e, K("body"), Missing)
HeadersOf(e) == dict_get(e, K("headers"), Missing)

\* pattern p matches the string s at its start
MatchesAtStart(p, s) ==
  LET n == IF Anchored(p) THEN Len(p) - 1 ELSE Len(p) IN
  /\ n <= Len(s)
  /\ \A i \in 1..n : p[i] \in {".", s[i]}
  /\ Anchored(p) => n = Len(s)

\* the entries of the route table whose pattern matches the event's path
MatchingEntries ==
  {i \in 1..Len(ROUTES.m) :
     PathOf(event).t = "str" /\ MatchesAtStart(ROUTES.m[i].k, PathOf(event).v)}
FirstMatching == CHOOSE i \in MatchingEntries : \A j \in MatchingEntries : i <= j
Routable == InHandle /\ Truthy(PathOf(event)) /\ Truthy(MethodOf(event))
MethodKnown(i) ==
  \E n \in 1..Len(ROUTES.m[i].val.m) : ROUTES.m[i].val.m[n].k = MethodOf(event).v
NameFor(i) ==
  LET mm == ROUTES.m[i].val.m
      n == CHOOSE n \in 1..Len(mm) : mm[n].k = MethodOf(event).v
  IN mm[n].val

\* the tokens of {"message": text}
MessageText(text) == Text(<<LBRACE, Str(K("message")), COLON, Str(text), RBRACE>>)
NotFound404 == [statusCode |-> 404, body |-> MessageText(K("Resource not found!"))]

EmptyBodyError == "ValueError: Body was empty"

(***************************************************************************)
(* C1: when the first route entry (in declared order) whose pattern         *)
(* matches the path has the method in its method map, get_controller        *)
(* returns that entry's controller name for the method; a later matching    *)
(* entry never wins.                                                        *)
(***************************************************************************)
C1_FirstMatchWins ==
  (Routable /\ Ran("get_controller") /\ MatchingEntries # {}
     /\ MethodKnown(FirstMatching))
    => controller = NameFor(FirstMatching)

\* two entries match, the later and more specific one names another controller
C1_Witness ==
  /\ Routable /\ Ran("get_controller")
  /\ MatchingEntries = {1, 2}
  /\ Len(ROUTES.m[1].k) < Len(ROUTES.m[2].k)
  /\ MethodKnown(1) /\ MethodKnown(2)
  /\ NameFor(1) # NameFor(2)
  /\ controller = NameFor(1)

(***************************************************************************)
(* C2 (as claimed): when the first matching entry has no key for the        *)
(* method, get_controller returns None without raising, no later entry is   *)
(* used, and handle returns the 404 response.                               *)
(***************************************************************************)
C2_MethodMissIsNotFound ==
  (Routable /\ Ran("get_controller") /\ MatchingEntries # {}
     /\ ~MethodKnown(FirstMatching))
    => /\ error = ""
       /\ controller = None
       /\ Over => (pc = "returned" /\ response = NotFound404)

(***************************************************************************)
(* C3: for an event with a non-empty path and a method whose path no route  *)
(* pattern matches, handle does not raise and returns exactly the 404       *)
(* response with body {"message": "Resource not found!"}; no controller is  *)
(* constructed or executed.                                                 *)
(***************************************************************************)
C3_UnmatchedIs404 ==
  (Routable /\ MatchingEntries = {})
    => /\ error = "" /\ pc # "raised"
       /\ instance = NoInstance
       /\ ~Ran("construct") /\ ~Ran("execute")
       /\ pc = "returned" => response = NotFound404

C3_Witness ==
  /\ Routable /\ MatchingEntries = {} /\ Len(ROUTES.m) = MaxRoutes
  /\ pc = "returned" /\ response = NotFound404

(***************************************************************************)
(* C4: the outcome of LoginController.execute on the parsed body            *)
(***************************************************************************)
ValidEmails == {<<"a", "@", "b", ".", "c", "c">>}
FieldOf(b, k) == IF b.t = "dict" THEN dict_get(b, K(k), Missing) ELSE Missing
EmailBad(b) == FieldOf(b, "email").t # "str" \/ FieldOf(b, "email").v \notin ValidEmails
PasswordBad(b) == FieldOf(b, "password").t # "str"
UnknownFields(b) ==
  IF b.t = "dict"
  THEN {b.m[i].k : i \in 1..Len(b.m)} \ {K("email"), K("password")}
  ELSE {}
CorrectPassword(b) ==
  FieldOf(b, "password") = Str(K("strongpassword")) /\ FieldOf(b, "email").v # <<>>

Executed == InHandle /\ pc = "returned" /\ Ran("execute")
MessageOf(r) == dict_get(json_loads(r.body).val, K("message"), Missing).v
\* the names between quotes in the message
Listed(r) ==
  LET msg == MessageOf(r) IN
  {<<msg[i + 1]>> : i \in {n \in 2..(Len(msg) - 2) :
                            /\ msg[n - 1] \in {"[", ", "}
                            /\ msg[n] = "'" /\ msg[n + 2] = "'"}}
Is(r, code, text) == r.statusCode = code /\ r.body = MessageText(text)

\* the keys LoginSchema rejects: _schema for a body that is no object, otherwise
\* the failed ones of email and password and every field the schema does not declare
Rejected(b) ==
  IF b.t # "dict" THEN {K("_schema")}
  ELSE (IF EmailBad(b) THEN {K("email")} ELSE {})
       \cup (IF PasswordBad(b) THEN {K("password")} ELSE {})
       \cup UnknownFields(b)

(***************************************************************************)
(* C4 (as claimed): 422 exactly when email is missing or invalid or         *)
(* password is missing or no string, the message listing the fields that    *)
(* failed validation; otherwise 200 when the password is "strongpassword"   *)
(* and the email non-empty; otherwise 403.                                  *)
(***************************************************************************)
C4_AsClaimed ==
  (Executed /\ instance.body.t = "dict")
    => LET b == instance.body IN
       IF EmailBad(b) \/ PasswordBad(b)
       THEN response.statusCode = 422 /\ Listed(response) = Rejected(b)
       ELSE IF CorrectPassword(b)
       THEN Is(response, 200, K("Login successful!"))
       ELSE Is(response, 403, K("Either email or password is incorrect!"))

(***************************************************************************)
(* C4 (amended): execute returns exactly one of three outcomes, validation  *)
(* first: 422 when the body is no object, or email is missing or invalid,   *)
(* or password is missing or no string, or the body has a field other than  *)
(* email and password, and the message then lists exactly the rejected      *)
(* keys; otherwise 200 "Login successful!" when the password is             *)
(* "strongpassword" and the email non-empty; otherwise 403.                 *)
(***************************************************************************)
C4_ValidateThenAuthenticate ==
  Executed
    => LET b == instance.body IN
       IF Rejected(b) # {}
       THEN /\ response.statusCode = 422
            /\ Listed(response) = Rejected(b)
            /\ MessageOf(response)[Len(MessageOf(response))] = " are missing!"
       ELSE IF CorrectPassword(b)
       THEN Is(response, 200, K("Login successful!"))
       ELSE Is(response, 403, K("Either email or password is incorrect!"))

\* the correct password with an invalid email: 422 naming email only
C4_Witness ==
  /\ Executed
  /\ FieldOf(instance.body, "password") = Str(K("strongpassword"))
  /\ FieldOf(instance.body, "email") = Str(<<"a", "@", "b", ".", "c">>)
  /\ response.statusCode = 422
  /\ Listed(response) = {K("email")}

(***************************************************************************)
(* C5: get_body returns the parsed data for a non-empty parseable body,     *)
(* raises the empty-body error for a missing or empty one and another       *)
(* error for an unparseable one; a request routed to the login controller   *)
(* with a missing or empty body ends in the empty-body error, not in a      *)
(* response.                                                                *)
(***************************************************************************)
BodyEmpty(e) == BodyOf(e).t \in {"missing", "none"} \/ BodyOf(e) = Text(<<>>)

C5_BodyParsedOrRaised ==
  /\ (callee = "get_body" /\ BodyEmpty(event))
       => (pc = "raised" /\ error = EmptyBodyError /\ ret = None)
  /\ (callee = "get_body" /\ BodyOf(event) = Truncated)
       => (pc = "raised" /\ error \notin {"", EmptyBodyError} /\ ret = None)
  /\ \A o \in LoginObjects :
       (callee = "get_body" /\ BodyOf(event) = json_dumps(o))
         => (pc = "returned" /\ error = "" /\ ret = o)
  /\ (InHandle /\ Over /\ controller = Str(Login) /\ BodyEmpty(event))
       => (pc = "raised" /\ error = EmptyBodyError /\ response = NoResponse)

\* a request with an empty body was routed to the login controller
C5_Witness ==
  /\ InHandle /\ controller = Str(Login) /\ BodyOf(event) = Text(<<>>)
  /\ pc = "raised" /\ error = EmptyBodyError

(***************************************************************************)
(* C6: handle on the same event under any two request ids, after any        *)
(* earlier invocations, has the same outcome: the same statusCode and body  *)
(* when it returns, and it raises in the same cases.                        *)
(***************************************************************************)
C6_SameEventSameOutcome ==
  (InHandle /\ Over /\ prev.set) => Outcome = prev.out

\* a login answered twice under different request ids
C6_Witness ==
  /\ InHandle /\ pc = "returned" /\ prev.set
  /\ prev.pid # pid
  /\ response.statusCode = 200

(***************************************************************************)
(* C7 (as claimed): get_resource returns the path, a string, when it is     *)
(* present and non-empty, and otherwise signals an error; no value that is  *)
(* not a string reaches the dispatcher.                                     *)
(***************************************************************************)
C7_ResourceIsString ==
  (InHandle /\ Ran("get_resource"))
    => /\ Truthy(PathOf(event)) => resource = PathOf(event)
       /\ ~Truthy(PathOf(event)) => (pc = "raised" /\ error # "")
       /\ resource.t = "str"

(***************************************************************************)
(* C8 (as claimed): get_request_origin never fails; it returns the value    *)
(* of the header named origin, whatever its case, and None when there is    *)
(* none, also when headers is missing, null or empty.                       *)
(***************************************************************************)
OriginHeaders ==
  LET h == HeadersOf(event).m IN
  {i \in 1..Len(h) : h[i].k \in {<<"o", "rigin">>, <<"O", "rigin">>, <<"O", "RIGIN">>}}

C8_OriginNeverFails ==
  callee = "get_request_origin"
    => /\ pc = "returned" /\ error = ""
       /\ OriginHeaders = {} => ret = None
       /\ OriginHeaders # {} => \E i \in OriginHeaders : ret = HeadersOf(event).m[i].val

(***************************************************************************)
(* C9: every response handle returns has a statusCode among 200, 403, 404,  *)
(* 422 and a body that is a string holding a serialized object with a       *)
(* message field.                                                           *)
(***************************************************************************)
C9_ResponseShape ==
  (InHandle /\ pc = "returned")
    => /\ response.statusCode \in {200, 403, 404, 422}
       /\ response.body.t = "text"
       /\ LET parsed == json_loads(response.body) IN
            /\ parsed.err = ""
            /\ parsed.val.t = "dict"
            /\ \E i \in 1..Len(parsed.val.m) :
                 parsed.val.m[i].k = K("message") /\ parsed.val.m[i].val.t = "str"

C9_Witness ==
  /\ InHandle /\ pc = "returned" /\ response.statusCode = 403
  /\ json_loads(response.body).val =
       Dict(<<Member(K("message"), Str(K("Either email or password is incorrect!")))>>)

(***************************************************************************)
(* C10: the steps of one invocation run in the order get_resource,          *)
(* get_request_type, get_controller, construct (which parses the body),     *)
(* execute.  The body is read only once a controller has been resolved: an  *)
(* event with a path and a method that matches no route gets the 404        *)
(* response whatever its body, and a body error is raised only for a        *)
(* request that resolved to a controller.                                   *)
(***************************************************************************)
StepOrder == <<"get_resource", "get_request_type", "get_controller", "construct", "execute">>
BodyErrors == {EmptyBodyError, "JSONDecodeError", "TypeError: the JSON object must be str"}

C10_BodyReadAfterResolve ==
  InHandle
    => /\ Len(trace) <= Len(StepOrder)
       /\ \A i \in 1..Len(trace) : trace[i] = StepOrder[i]
       /\ instance # NoInstance => Ran("construct")
       /\ Ran("construct") => (Truthy(controller) /\ MatchingEntries # {})
       /\ error \in BodyErrors => (Ran("construct") /\ Truthy(controller))
       /\ (Routable /\ MatchingEntries = {} /\ Over)
            => (pc = "returned" /\ response = NotFound404)

\* an unparseable body on a path no route matches: the 404, not a body error
C10_Witness ==
  /\ Routable /\ MatchingEntries = {} /\ ROUTES.m # <<>>
  /\ BodyOf(event) = Truncated
  /\ pc = "returned" /\ response = NotFound404
  /\ trace = SubSeq(StepOrder, 1, 3)

====
